---- MODULE Spec2Model ----
(***************************************************************************)
(* A model of scripts/code-collector.py: one run of main() over a          *)
(* directory tree, and the pure helper should_ignore.                      *)
(*                                                                         *)
(* A Python str is a sequence of one-character strings, so that basename,  *)
(* endswith, join and sorted() are computed character by character.        *)
(* The box-drawing glyphs of the tree are written with ASCII stand-ins:    *)
(*   "|-- " for U+251C U+2500 U+2500 SPACE,  "\\-- " for U+2514 ...,        *)
(*   "|   " for U+2502 and three spaces.                                   *)
(***************************************************************************)
EXTENDS Integers, Sequences, FiniteSets, TLC

(* ------------------------------ bounds -------------------------------- *)

\* Size of one run's input: directory entries + ignore names + ignore
\* extensions + paths matched by .gitignore + unreadable files + unlistable
\* directories.
MaxSize == 4

\* Size of one should_ignore call's rule sets (names + extensions + matched).
MaxRules == 2

(* ------------------------------ strings ------------------------------- *)

Sep == "/"
EmptyStr == <<>>
GitName == <<".", "g", "i", "t">>
GitIgnoreName == <<".", "g", "i", "t", "i", "g", "n", "o", "r", "e">>
NameA == <<"a">>
NameBL == <<"b", ".", "l">>
ExtL == <<".", "l">>
ExtSlashA == <<"/", "a">>

\* Names a directory entry can have in the model.
NamePool == {GitName, NameA, NameBL}
EntryNames == NamePool \cup {GitIgnoreName}

\* Values of --ignore-files and --ignore-extensions.
IgnoreNamePool == {GitName, NameA, GitIgnoreName}
ExtPool == {ExtL, ExtSlashA}

ord(c) ==
  CASE c = "." -> 46 [] c = "/" -> 47 [] c = "a" -> 97 [] c = "b" -> 98
    [] c = "e" -> 101 [] c = "g" -> 103 [] c = "i" -> 105 [] c = "l" -> 108
    [] c = "n" -> 110 [] c = "o" -> 111 [] c = "r" -> 114 [] c = "t" -> 116

\* Python's str.__lt__: code-point lexicographic order, a proper prefix first.
str_lt(s, t) ==
  \E i \in 1..Len(t) :
     /\ i <= Len(s) + 1
     /\ \A j \in 1..(i - 1) : s[j] = t[j]
     /\ IF i = Len(s) + 1 THEN TRUE ELSE ord(s[i]) < ord(t[i])

\* sorted(list of str)
RECURSIVE sorted(_)
sorted(S) ==
  IF S = {} THEN <<>>
  ELSE LET m == CHOOSE x \in S : \A y \in S \ {x} : str_lt(x, y)
       IN <<m>> \o sorted(S \ {m})

\* os.path.join(a, b) for a relative b; the code itself guards the empty a.
os_path_join(a, b) == IF a = EmptyStr THEN b ELSE a \o <<Sep>> \o b

\* str.rfind(Sep) + 1: the index (1-based) of the first character after the
\* last separator.
rfind_sep(p) ==
  LET hits == {i \in 1..Len(p) : p[i] = Sep}
  IN IF hits = {} THEN 0 ELSE CHOOSE i \in hits : \A j \in hits : j <= i

\* os.path.basename(p) == p[p.rfind('/') + 1:]
os_path_basename(p) == SubSeq(p, rfind_sep(p) + 1, Len(p))

\* str.endswith(ext)
endswith(s, ext) ==
  /\ Len(ext) <= Len(s)
  /\ SubSeq(s, Len(s) - Len(ext) + 1, Len(s)) = ext

(* ------------------------- the ignore predicate ----------------------- *)

\* A compiled PathSpec, or None.  The patterns are pathspec's (an external
\* library); a matcher is the set of relative paths its patterns match.  With
\* negated patterns any set of paths is the match set of some pattern list.
\* Line 33 tests the truth of spec first: None and a PathSpec of no patterns
\* are both false there, and neither matches anything.
NoSpec == [present |-> FALSE, matched |-> {}]

match_file(spec, rel_path) == rel_path \in spec.matched

\* should_ignore with the extension test left out.
should_ignore_no_ext(rel_path, spec, extra_ignore_files, extra_ignore_extensions) ==
  IF os_path_basename(rel_path) \in extra_ignore_files THEN TRUE
  ELSE IF spec.present /\ match_file(spec, rel_path) THEN TRUE
  ELSE FALSE

should_ignore(rel_path, spec, extra_ignore_files, extra_ignore_extensions) ==
  IF os_path_basename(rel_path) \in extra_ignore_files THEN TRUE
  ELSE IF \E ext \in extra_ignore_extensions : endswith(rel_path, ext) THEN TRUE
  ELSE IF spec.present /\ match_file(spec, rel_path) THEN TRUE
  ELSE FALSE

(* ----------------------------- filesystem ----------------------------- *)

\* A directory on disk (the root argument of generate_tree, the argument of
\* os.walk): the kind of every entry below it, by relative path, and the
\* directories whose listing raises.
os_path_dirname(p) ==
  IF rfind_sep(p) = 0 THEN EmptyStr ELSE SubSeq(p, 1, rfind_sep(p) - 1)

os_listdir(root, rel) ==
  {n \in EntryNames : os_path_join(rel, n) \in DOMAIN root.fs}

os_path_isdir(root, rel) ==
  rel = EmptyStr \/ (rel \in DOMAIN root.fs /\ root.fs[rel] = "dir")

os_path_isfile(root, rel) ==
  rel \in DOMAIN root.fs /\ root.fs[rel] = "file"

(* ------------------------------- state -------------------------------- *)

VARIABLES
  \* inputs: the command line and the disk
  target_is_dir,            \* os.path.isdir(target_dir)
  no_tree,                  \* args.no_tree
  ignore_files,             \* args.ignore_files
  ignore_extensions,        \* args.ignore_extensions
  fs,                       \* relative path -> "file" | "dir", under target_dir
  unlistable,               \* directories whose listing raises
  unreadable,               \* files whose open/read/decode raises
  gitignore_matches,        \* the paths the patterns of .gitignore match
  \* main()'s locals
  pc,
  extra_ignore_files,
  extra_ignore_extensions,
  spec,
  tree_lines,
  tree_index,               \* lines of tree_lines already written
  walk_stack,               \* directories os.walk has still to visit
  walk_root,                \* root of the current os.walk iteration
  walk_files,               \* files of the current iteration not yet handled
  outf,                     \* the writes made to the output file, in order
  stdout,                   \* the print() calls, in order
  \* one call of should_ignore (SpecIgnore)
  call

vars == <<target_is_dir, no_tree, ignore_files, ignore_extensions, fs,
          unlistable, unreadable, gitignore_matches, pc, extra_ignore_files,
          extra_ignore_extensions, spec, tree_lines, tree_index, walk_stack,
          walk_root, walk_files, outf, stdout, call>>

inputs == <<target_is_dir, no_tree, ignore_files, ignore_extensions, fs,
            unlistable, unreadable, gitignore_matches>>

target_dir == [fs |-> fs, unlistable |-> unlistable]

(* --------------------------- tree rendering --------------------------- *)

LastConnector == "\\-- "
MidConnector == "|-- "
LastExtension == "    "
MidExtension == "|   "

\* One tree line: prefix + connector + entry.  The prefix is kept as the
\* sequence of the extensions it was built from.
TreeLine(prefix, connector, entry) ==
  [prefix |-> prefix, connector |-> connector, entry |-> entry]

RECURSIVE generate_tree(_, _, _)
RECURSIVE tree_entries(_, _, _, _, _)

\* tree_entries with "last" decided on the listing before filtering.
tree_entries_last_unfiltered(root, current_rel, prefix, filtered_entries, index) ==
  IF index > Len(filtered_entries) THEN <<>>
  ELSE
    LET entry == filtered_entries[index]
        last == \A n \in os_listdir(root, current_rel) : ~str_lt(entry, n)
        connector == IF last THEN LastConnector ELSE MidConnector
        line == TreeLine(prefix, connector, entry)
        entry_rel == IF current_rel # EmptyStr
                     THEN os_path_join(current_rel, entry) ELSE entry
        extension == IF last THEN LastExtension ELSE MidExtension
        below == IF os_path_isdir(root, entry_rel)
                 THEN generate_tree(root, entry_rel, Append(prefix, extension))
                 ELSE <<>>
    IN <<line>> \o below
       \o tree_entries(root, current_rel, prefix, filtered_entries, index + 1)

\* tree_entries with the extension put in front of the prefix.
tree_entries_extension_first(root, current_rel, prefix, filtered_entries, index) ==
  IF index > Len(filtered_entries) THEN <<>>
  ELSE
    LET count == Len(filtered_entries)
        entry == filtered_entries[index]
        connector == IF index = count THEN LastConnector ELSE MidConnector
        line == TreeLine(prefix, connector, entry)
        entry_rel == IF current_rel # EmptyStr
                     THEN os_path_join(current_rel, entry) ELSE entry
        extension == IF index = count THEN LastExtension ELSE MidExtension
        below == IF os_path_isdir(root, entry_rel)
                 THEN generate_tree(root, entry_rel, <<extension>> \o prefix)
                 ELSE <<>>
    IN <<line>> \o below
       \o tree_entries(root, current_rel, prefix, filtered_entries, index + 1)

\* The body of for index, entry in enumerate(filtered_entries), from the
\* (1-based) position index on.
tree_entries(root, current_rel, prefix, filtered_entries, index) ==
  IF index > Len(filtered_entries) THEN <<>>
  ELSE
    LET count == Len(filtered_entries)
        entry == filtered_entries[index]
        connector == IF index = count THEN LastConnector ELSE MidConnector
        line == TreeLine(prefix, connector, entry)
        entry_rel == IF current_rel # EmptyStr
                     THEN os_path_join(current_rel, entry) ELSE entry
        extension == IF index = count THEN LastExtension ELSE MidExtension
        below == IF os_path_isdir(root, entry_rel)
                 THEN generate_tree(root, entry_rel, Append(prefix, extension))
                 ELSE <<>>
    IN <<line>> \o below
       \o tree_entries(root, current_rel, prefix, filtered_entries, index + 1)

\* generate_tree without the except branch: a listing never raises.
generate_tree_always_lists(root, current_rel, prefix) ==
  LET entries == sorted(os_listdir(root, current_rel))
      kept(entry) ==
        ~should_ignore(
           IF current_rel # EmptyStr
           THEN os_path_join(current_rel, entry) ELSE entry,
           spec, extra_ignore_files, extra_ignore_extensions)
      filtered_entries == SelectSeq(entries, kept)
  IN tree_entries(root, current_rel, prefix, filtered_entries, 1)

generate_tree(root, current_rel, prefix) ==
  IF current_rel \in root.unlistable THEN <<>>
  ELSE
    LET entries == sorted(os_listdir(root, current_rel))
        kept(entry) ==
          ~should_ignore(
             IF current_rel # EmptyStr
             THEN os_path_join(current_rel, entry) ELSE entry,
             spec, extra_ignore_files, extra_ignore_extensions)
        filtered_entries == SelectSeq(entries, kept)
    IN tree_entries(root, current_rel, prefix, filtered_entries, 1)

(* ------------------------------ the run ------------------------------- *)

Write(kind, path, line) == [kind |-> kind, path |-> path, line |-> line]
NoLine == TreeLine(<<>>, "", EmptyStr)

\* The pattern file is read and compiled; an unreadable file raises.
load_gitignore_spec(gitignore_path) ==
  [present |-> TRUE, matched |-> gitignore_matches]

\* Setup without the .git detection of lines 69-71.
Setup_without_git ==
  /\ pc = "start"
  /\ IF ~target_is_dir
     THEN /\ pc' = "exit"
          /\ UNCHANGED <<extra_ignore_files, extra_ignore_extensions, spec>>
     ELSE /\ extra_ignore_files' = ignore_files
          /\ extra_ignore_extensions' = ignore_extensions
          /\ IF os_path_isfile(target_dir, GitIgnoreName)
             THEN IF GitIgnoreName \in unreadable
                  THEN pc' = "crashed" /\ spec' = NoSpec
                  ELSE pc' = "open" /\ spec' = load_gitignore_spec(GitIgnoreName)
             ELSE pc' = "open" /\ spec' = NoSpec
  /\ UNCHANGED <<inputs, tree_lines, tree_index, walk_stack, walk_root,
                 walk_files, outf, stdout, call>>

\* Lines 60-77: resolve the arguments, detect .git and .gitignore.
Setup ==
  /\ pc = "start"
  /\ IF ~target_is_dir
     THEN /\ pc' = "exit"
          /\ UNCHANGED <<extra_ignore_files, extra_ignore_extensions, spec>>
     ELSE /\ extra_ignore_files' =
               IF os_path_isdir(target_dir, GitName)
               THEN ignore_files \cup {GitName} ELSE ignore_files
          /\ extra_ignore_extensions' = ignore_extensions
          /\ IF os_path_isfile(target_dir, GitIgnoreName)
             THEN IF GitIgnoreName \in unreadable
                  THEN pc' = "crashed" /\ spec' = NoSpec
                  ELSE pc' = "open" /\ spec' = load_gitignore_spec(GitIgnoreName)
             ELSE pc' = "open" /\ spec' = NoSpec
  /\ UNCHANGED <<inputs, tree_lines, tree_index, walk_stack, walk_root,
                 walk_files, outf, stdout, call>>

\* WriteDescription followed by the tree whatever --no-tree says.
WriteDescription_always_tree ==
  /\ pc = "open"
  /\ outf' = Append(outf, Write("description", EmptyStr, NoLine))
  /\ pc' = "tree"
  /\ UNCHANGED <<inputs, extra_ignore_files, extra_ignore_extensions, spec,
                 tree_lines, tree_index, walk_stack, walk_root, walk_files,
                 stdout, call>>

\* Lines 110-117: open the output file and write the description.
WriteDescription ==
  /\ pc = "open"
  /\ outf' = Append(outf, Write("description", EmptyStr, NoLine))
  /\ pc' = IF ~no_tree THEN "tree" ELSE "walk"
  /\ UNCHANGED <<inputs, extra_ignore_files, extra_ignore_extensions, spec,
                 tree_lines, tree_index, walk_stack, walk_root, walk_files,
                 stdout, call>>

\* Lines 121-123: the heading, the opening fence, and the whole tree computed.
BeginTree ==
  /\ pc = "tree"
  /\ outf' = outf \o <<Write("tree_heading", EmptyStr, NoLine),
                       Write("fence", EmptyStr, NoLine)>>
  /\ tree_lines' = generate_tree(target_dir, EmptyStr, <<>>)
  /\ tree_index' = 0
  /\ pc' = "tree_lines"
  /\ UNCHANGED <<inputs, extra_ignore_files, extra_ignore_extensions, spec,
                 walk_stack, walk_root, walk_files, stdout, call>>

\* Lines 124-125: one iteration of for line in tree_lines.
WriteTreeLine ==
  /\ pc = "tree_lines"
  /\ tree_index < Len(tree_lines)
  /\ outf' = Append(outf, Write("tree_line", EmptyStr, tree_lines[tree_index + 1]))
  /\ tree_index' = tree_index + 1
  /\ UNCHANGED <<inputs, pc, extra_ignore_files, extra_ignore_extensions, spec,
                 tree_lines, walk_stack, walk_root, walk_files, stdout, call>>

\* Line 126: the closing fence of the tree.
EndTree ==
  /\ pc = "tree_lines"
  /\ tree_index = Len(tree_lines)
  /\ outf' = Append(outf, Write("tree_close", EmptyStr, NoLine))
  /\ pc' = "walk"
  /\ UNCHANGED <<inputs, extra_ignore_files, extra_ignore_extensions, spec,
                 tree_lines, tree_index, walk_stack, walk_root, walk_files,
                 stdout, call>>

\* The orders in which a scandir can return the names of S.
RECURSIVE Orders(_)
Orders(S) ==
  IF S = {} THEN {<<>>}
  ELSE UNION {{<<x>> \o o : o \in Orders(S \ {x})} : x \in S}

\* WalkNextDir with every kept subdirectory queued twice.
WalkNextDir_revisits ==
  /\ pc = "walk"
  /\ walk_files = {}
  /\ walk_stack # <<>>
  /\ LET top == Head(walk_stack) IN
     IF top \in unlistable
     THEN /\ walk_stack' = Tail(walk_stack)
          /\ UNCHANGED <<walk_root, walk_files>>
     ELSE LET names == os_listdir(target_dir, top)
              dirs == {d \in names : os_path_isdir(target_dir, os_path_join(top, d))}
              files == names \ dirs
              pruned == {d \in dirs : d \notin extra_ignore_files}
          IN /\ \E order \in Orders(pruned) :
                  walk_stack' =
                    [i \in 1..Len(order) |-> os_path_join(top, order[i])]
                    \o [i \in 1..Len(order) |-> os_path_join(top, order[i])]
                    \o Tail(walk_stack)
             /\ walk_root' = top
             /\ walk_files' = files
  /\ UNCHANGED <<inputs, pc, extra_ignore_files, extra_ignore_extensions, spec,
                 tree_lines, tree_index, outf, stdout, call>>

\* Lines 129-131: os.walk yields the next directory (top-down; a listing that
\* raises is skipped, onerror being None), and the loop body prunes dirs.
\* The pruned dirs are visited, in scandir's order, after this directory's
\* files and before the directories already pending.
WalkNextDir ==
  /\ pc = "walk"
  /\ walk_files = {}
  /\ walk_stack # <<>>
  /\ LET top == Head(walk_stack) IN
     IF top \in unlistable
     THEN /\ walk_stack' = Tail(walk_stack)
          /\ UNCHANGED <<walk_root, walk_files>>
     ELSE LET names == os_listdir(target_dir, top)
              dirs == {d \in names : os_path_isdir(target_dir, os_path_join(top, d))}
              files == names \ dirs
              pruned == {d \in dirs : d \notin extra_ignore_files}
          IN /\ \E order \in Orders(pruned) :
                  walk_stack' =
                    [i \in 1..Len(order) |-> os_path_join(top, order[i])]
                    \o Tail(walk_stack)
             /\ walk_root' = top
             /\ walk_files' = files
  /\ UNCHANGED <<inputs, pc, extra_ignore_files, extra_ignore_extensions, spec,
                 tree_lines, tree_index, outf, stdout, call>>

\* os.path.relpath(os.path.join(root, file), target_dir)
rel_path_of(file) == os_path_join(walk_root, file)

\* Lines 132-139: a file of the current directory is ignored.
SkipIgnoredFile ==
  /\ pc = "walk"
  /\ \E file \in walk_files :
       /\ should_ignore(rel_path_of(file), spec, extra_ignore_files,
                        extra_ignore_extensions)
       /\ walk_files' = walk_files \ {file}
  /\ UNCHANGED <<inputs, pc, extra_ignore_files, extra_ignore_extensions, spec,
                 tree_lines, tree_index, walk_stack, walk_root, outf, stdout,
                 call>>

\* SkipUnreadableFile with the path header written before the read.
SkipUnreadableFile_header_first ==
  /\ pc = "walk"
  /\ \E file \in walk_files :
       /\ ~should_ignore(rel_path_of(file), spec, extra_ignore_files,
                         extra_ignore_extensions)
       /\ rel_path_of(file) \in unreadable
       /\ outf' = Append(outf, Write("path_header", rel_path_of(file), NoLine))
       /\ stdout' = Append(stdout, rel_path_of(file))
       /\ walk_files' = walk_files \ {file}
  /\ UNCHANGED <<inputs, pc, extra_ignore_files, extra_ignore_extensions, spec,
                 tree_lines, tree_index, walk_stack, walk_root, call>>

\* Lines 141-146: reading the file raises; the reason is printed.
SkipUnreadableFile ==
  /\ pc = "walk"
  /\ \E file \in walk_files :
       /\ ~should_ignore(rel_path_of(file), spec, extra_ignore_files,
                         extra_ignore_extensions)
       /\ rel_path_of(file) \in unreadable
       /\ stdout' = Append(stdout, rel_path_of(file))
       /\ walk_files' = walk_files \ {file}
  /\ UNCHANGED <<inputs, pc, extra_ignore_files, extra_ignore_extensions, spec,
                 tree_lines, tree_index, walk_stack, walk_root, outf, call>>

\* WriteSection without the should_ignore test of lines 136-139.
WriteSection_unfiltered ==
  /\ pc = "walk"
  /\ \E file \in walk_files :
       /\ rel_path_of(file) \notin unreadable
       /\ outf' = outf \o <<Write("path_header", rel_path_of(file), NoLine),
                            Write("fence", EmptyStr, NoLine),
                            Write("content", rel_path_of(file), NoLine),
                            Write("section_close", EmptyStr, NoLine)>>
       /\ walk_files' = walk_files \ {file}
  /\ UNCHANGED <<inputs, pc, extra_ignore_files, extra_ignore_extensions, spec,
                 tree_lines, tree_index, walk_stack, walk_root, stdout, call>>

\* Lines 141-153: the file is read and its section written.
WriteSection ==
  /\ pc = "walk"
  /\ \E file \in walk_files :
       /\ ~should_ignore(rel_path_of(file), spec, extra_ignore_files,
                         extra_ignore_extensions)
       /\ rel_path_of(file) \notin unreadable
       /\ outf' = outf \o <<Write("path_header", rel_path_of(file), NoLine),
                            Write("fence", EmptyStr, NoLine),
                            Write("content", rel_path_of(file), NoLine),
                            Write("section_close", EmptyStr, NoLine)>>
       /\ walk_files' = walk_files \ {file}
  /\ UNCHANGED <<inputs, pc, extra_ignore_files, extra_ignore_extensions, spec,
                 tree_lines, tree_index, walk_stack, walk_root, stdout, call>>

\* os.walk is exhausted: the with block closes the output file.
Finish ==
  /\ pc = "walk"
  /\ walk_files = {}
  /\ walk_stack = <<>>
  /\ pc' = "done"
  /\ UNCHANGED <<inputs, extra_ignore_files, extra_ignore_extensions, spec,
                 tree_lines, tree_index, walk_stack, walk_root, walk_files,
                 outf, stdout, call>>

Next ==
  \/ Setup
  \/ WriteDescription
  \/ BeginTree
  \/ WriteTreeLine
  \/ EndTree
  \/ WalkNextDir
  \/ SkipIgnoredFile
  \/ SkipUnreadableFile
  \/ WriteSection
  \/ Finish

(* ------------------------------ the inputs ---------------------------- *)

RECURSIVE SubsetsUpTo(_, _)
SubsetsUpTo(S, k) ==
  IF k <= 0 THEN {{}}
  ELSE LET prev == SubsetsUpTo(S, k - 1)
       IN prev \cup UNION {{s \cup {x} : x \in S} : s \in prev}

\* The entries that can be added to the set t of relative paths.
Addable(t) ==
  {os_path_join(par, nm) : par \in t \cup {EmptyStr}, nm \in NamePool}
    \cup {GitIgnoreName}

RECURSIVE TreesUpTo(_)
TreesUpTo(n) ==
  IF n <= 0 THEN {{}}
  ELSE LET prev == TreesUpTo(n - 1)
       IN prev \cup UNION {{t \cup {c} : c \in Addable(t)} : t \in prev}

HasChild(t, p) == \E q \in t : os_path_dirname(q) = p

\* Every disk of at most MaxSize entries: an entry with children is a
\* directory, any other is a file or an empty directory.
Disks ==
  UNION {
    {[p \in t |-> IF HasChild(t, p) \/ p \in D THEN "dir" ELSE "file"] :
       D \in SUBSET {p \in t : ~HasChild(t, p)}} :
    t \in TreesUpTo(MaxSize)}

\* What else an input of the run can hold, one unit of size each.
Options(f) ==
  LET paths == DOMAIN f
      dirs == {p \in paths : f[p] = "dir"} \cup {EmptyStr}
      files == {p \in paths : f[p] = "file"}
  IN ({"name"} \X IgnoreNamePool)
       \cup ({"ext"} \X ExtPool)
       \cup ({"match"} \X (IF GitIgnoreName \in files THEN paths ELSE {}))
       \cup ({"unreadable"} \X files)
       \cup ({"unlistable"} \X dirs)

Chosen(sel, tag) == {o[2] : o \in {x \in sel : x[1] = tag}}

NoCall == [rel_path |-> EmptyStr, spec |-> NoSpec, files |-> {},
           extensions |-> {}, returned |-> FALSE, result |-> FALSE]

InitLocals ==
  /\ pc = "start"
  /\ extra_ignore_files = {}
  /\ extra_ignore_extensions = {}
  /\ spec = NoSpec
  /\ tree_lines = <<>>
  /\ tree_index = 0
  /\ walk_stack = <<EmptyStr>>
  /\ walk_root = EmptyStr
  /\ walk_files = {}
  /\ outf = <<>>
  /\ stdout = <<>>
  /\ call = NoCall

Init ==
  /\ InitLocals
  /\ \/ /\ target_is_dir = FALSE
        /\ no_tree = FALSE
        /\ fs = <<>>
        /\ ignore_files = {} /\ ignore_extensions = {} /\ unlistable = {}
        /\ unreadable = {} /\ gitignore_matches = {}
     \/ /\ target_is_dir = TRUE
        /\ no_tree \in BOOLEAN
        /\ \E f \in Disks :
             \E sel \in SubsetsUpTo(Options(f), MaxSize - Cardinality(DOMAIN f)) :
               /\ fs = f
               /\ ignore_files = Chosen(sel, "name")
               /\ ignore_extensions = Chosen(sel, "ext")
               /\ gitignore_matches = Chosen(sel, "match")
               /\ unreadable = Chosen(sel, "unreadable")
               /\ unlistable = Chosen(sel, "unlistable")

Spec == Init /\ [][Next]_vars

\* The run up to the end of the tree region, with the tree enabled.  A file
\* that cannot be read changes nothing here: no file is read before line 142.
InitTree ==
  /\ Init
  /\ target_is_dir
  /\ ~no_tree
  /\ unreadable = {}

NextTree ==
  \/ Setup
  \/ WriteDescription
  \/ BeginTree
  \/ WriteTreeLine
  \/ EndTree

SpecTree == InitTree /\ [][NextTree]_vars

(* --------------------- should_ignore on its own ----------------------- *)

\* The relative paths of at most two components.
PathPool == UNION TreesUpTo(2)

RuleOptions ==
  ({"name"} \X IgnoreNamePool) \cup ({"ext"} \X ExtPool)
    \cup ({"match"} \X PathPool)

InitIgnore ==
  /\ target_is_dir = FALSE
  /\ no_tree = FALSE
  /\ fs = <<>>
  /\ ignore_files = {} /\ ignore_extensions = {} /\ unlistable = {}
  /\ unreadable = {} /\ gitignore_matches = {}
  /\ pc = "start"
  /\ extra_ignore_files = {}
  /\ extra_ignore_extensions = {}
  /\ spec = NoSpec
  /\ tree_lines = <<>>
  /\ tree_index = 0
  /\ walk_stack = <<EmptyStr>>
  /\ walk_root = EmptyStr
  /\ walk_files = {}
  /\ outf = <<>>
  /\ stdout = <<>>
  /\ \E p \in PathPool, sel \in SubsetsUpTo(RuleOptions, MaxRules),
        present \in BOOLEAN :
       call = [rel_path |-> p,
               spec |-> IF present
                        THEN [present |-> TRUE, matched |-> Chosen(sel, "match")]
                        ELSE NoSpec,
               files |-> Chosen(sel, "name"),
               extensions |-> Chosen(sel, "ext"),
               returned |-> FALSE,
               result |-> FALSE]

\* should_ignore is called on the arguments and returns.
CallShouldIgnore ==
  /\ ~call.returned
  /\ call' = [call EXCEPT
                !.returned = TRUE,
                !.result = should_ignore(call.rel_path, call.spec, call.files,
                                         call.extensions)]
  /\ UNCHANGED <<inputs, pc, extra_ignore_files, extra_ignore_extensions, spec,
                 tree_lines, tree_index, walk_stack, walk_root, walk_files,
                 outf, stdout>>

NextIgnore == CallShouldIgnore

SpecIgnore == InitIgnore /\ [][NextIgnore]_vars

(* ------------------------------ claims -------------------------------- *)

\* b is the last component of p: b holds no separator and p is b, or ends
\* with a separator followed by b.
IsBasenameOf(b, p) ==
  /\ \A i \in 1..Len(b) : b[i] # Sep
  /\ \/ p = b
     \/ \E d \in 1..Len(p) : p[d] = Sep /\ SubSeq(p, d + 1, Len(p)) = b

\* p is some string followed by e.
HasSuffix(p, e) == \E k \in 0..Len(p) : SubSeq(p, 1, k) \o e = p

CallNameHit == \E n \in call.files : IsBasenameOf(n, call.rel_path)
CallSuffixHit == \E e \in call.extensions : HasSuffix(call.rel_path, e)
CallMatcherHit == call.spec.present /\ call.rel_path \in call.spec.matched

\* C1: should_ignore returns true iff the basename of the path is in the name
\* set, or the path ends with a member of the extension set, or the matcher is
\* present and matches the path.
C1_ShouldIgnoreIff ==
  call.returned =>
    (call.result <=> (CallNameHit \/ CallSuffixHit \/ CallMatcherHit))

\* A suffix hit alone, on a path below the root, with a matcher that is
\* present and does not match.
C1_Witness ==
  /\ call.returned /\ call.result
  /\ CallSuffixHit /\ ~CallNameHit /\ ~CallMatcherHit
  /\ call.spec.present
  /\ \E i \in 1..Len(call.rel_path) : call.rel_path[i] = Sep


(* ---- helpers of the claims about a run ---- *)

IgnoredNow(p) ==
  should_ignore(p, spec, extra_ignore_files, extra_ignore_extensions)

\* d is a directory path strictly above p.
IsAncestor(d, p) ==
  /\ d # EmptyStr
  /\ Len(d) < Len(p)
  /\ SubSeq(p, 1, Len(d)) = d
  /\ p[Len(d) + 1] = Sep

Files == {p \in DOMAIN fs : fs[p] = "file"}

\* The content walk reaches the directory of p: no directory above p is pruned
\* by name or fails to list.
Walked(p) ==
  /\ EmptyStr \notin unlistable
  /\ \A d \in DOMAIN fs :
       IsAncestor(d, p) =>
         /\ d \notin unlistable
         /\ ~\E n \in extra_ignore_files : IsBasenameOf(n, d)

HeaderIndexes == {i \in 1..Len(outf) : outf[i].kind = "path_header"}
SectionPaths == {outf[i].path : i \in HeaderIndexes}

IsTreeLine(w) == w.kind = "tree_line"
WrittenLines ==
  LET ws == SelectSeq(outf, IsTreeLine)
  IN [k \in 1..Len(ws) |-> ws[k].line]

\* Reading the tree back: the parent of line k is the nearest earlier line
\* whose prefix is one extension shorter; 0 when there is none.
ParentIndex(L, k) ==
  LET c == {j \in 1..(k - 1) : Len(L[j].prefix) = Len(L[k].prefix) - 1}
  IN IF c = {} THEN 0 ELSE CHOOSE j \in c : \A x \in c : x <= j

Malformed == <<Sep>>

RECURSIVE LinePath(_, _)
LinePath(L, k) ==
  IF Len(L[k].prefix) = 0 THEN L[k].entry
  ELSE LET up == ParentIndex(L, k)
       IN IF up = 0 THEN Malformed
          ELSE LinePath(L, up) \o <<Sep>> \o L[k].entry

ParentPath(L, k) ==
  IF Len(L[k].prefix) = 0 THEN EmptyStr
  ELSE LET up == ParentIndex(L, k)
       IN IF up = 0 THEN Malformed ELSE LinePath(L, up)

\* generate_tree has just returned (line 123); tree_lines is not assigned
\* again.
TreeComputed == pc = "tree_lines" /\ tree_index = 0

\* The entries of directory d that are not ignored.
Survivors(d) ==
  {n \in EntryNames :
     LET p == IF d = EmptyStr THEN n ELSE d \o <<Sep>> \o n
     IN p \in DOMAIN fs /\ ~IgnoredNow(p)}

\* C2: no tree line and no file section is written for an entry that
\* should_ignore excludes; every line and section is an entry of the disk.
C2_NothingIgnoredIsEmitted ==
  /\ LET L == WrittenLines IN
     \A k \in 1..Len(L) :
       LET p == LinePath(L, k)
       IN p \in DOMAIN fs /\ ~IgnoredNow(p)
  /\ \A i \in 1..Len(outf) :
       outf[i].kind \in {"path_header", "content"} =>
         outf[i].path \in Files /\ ~IgnoredNow(outf[i].path)

\* A finished run with a tree and a section, over a disk holding an ignored
\* file in a directory the walk visits.
C2_Witness ==
  /\ pc = "done" /\ ~no_tree
  /\ Len(WrittenLines) > 0 /\ SectionPaths # {}
  /\ \E p \in Files : IgnoredNow(p) /\ Walked(p)

\* C3: no file section is written for a file below a directory that the
\* ignore predicate excludes.
C3_NoSectionBelowIgnoredDirectory ==
  \A p \in SectionPaths :
    \A d \in DOMAIN fs : IsAncestor(d, p) => ~IgnoredNow(d)

\* C4: the section paths written so far are pairwise different, each section
\* is whole, and at the end there is one for each file the walk visited, did
\* not ignore and could read.
C4_OneSectionPerFile ==
  /\ \A i, j \in HeaderIndexes : outf[i].path = outf[j].path => i = j
  /\ \A i \in HeaderIndexes :
       /\ i + 3 <= Len(outf)
       /\ outf[i + 1].kind = "fence"
       /\ outf[i + 2].kind = "content" /\ outf[i + 2].path = outf[i].path
       /\ outf[i + 3].kind = "section_close"
  /\ pc = "done" =>
       SectionPaths =
         {p \in Files : Walked(p) /\ ~IgnoredNow(p) /\ p \notin unreadable}

\* A finished run that wrote two sections, one for a file in a subdirectory.
C4_Witness ==
  /\ pc = "done"
  /\ Cardinality(SectionPaths) >= 2
  /\ \E p \in SectionPaths : \E i \in 1..Len(p) : p[i] = Sep

GitDirPresent ==
  target_is_dir /\ GitName \in DOMAIN fs /\ fs[GitName] = "dir"

UnderGit(p) == p = GitName \/ IsAncestor(GitName, p)

\* C5: with a .git directory at the scan root, no tree line is written for
\* it or for anything below it, and no section for a file below it.
C5_GitDirectoryExcluded ==
  GitDirPresent =>
    /\ LET L == WrittenLines IN
       \A k \in 1..Len(L) : ~UnderGit(LinePath(L, k))
    /\ \A i \in 1..Len(outf) :
         outf[i].kind \in {"path_header", "content"} => ~UnderGit(outf[i].path)

\* A finished run with a tree and a section, over a disk with a .git
\* directory the caller did not name, holding a readable file that no
\* caller-supplied rule ignores.
C5_Witness ==
  /\ pc = "done" /\ ~no_tree /\ GitDirPresent
  /\ GitName \notin ignore_files
  /\ Len(WrittenLines) > 0 /\ SectionPaths # {}
  /\ \E p \in Files :
       /\ IsAncestor(GitName, p)
       /\ p \notin unreadable
       /\ ~should_ignore(p, spec, ignore_files, ignore_extensions)


\* The directories generate_tree listed: the root, and every directory that
\* has a line, unless its listing raises.
RenderedDirs ==
  ({EmptyStr} \cup
   {LinePath(tree_lines, k) : k \in 1..Len(tree_lines)})
    \cap {d \in DOMAIN fs \cup {EmptyStr} :
            os_path_isdir(target_dir, d) /\ d \notin unlistable}

ChildIndexes(d) ==
  {k \in 1..Len(tree_lines) : ParentPath(tree_lines, k) = d}

\* C6: under every rendered directory the lines of its children are its
\* non-ignored entries, once each, in increasing lexicographic order, and
\* the last of these lines, and no other, has the "last" connector.
C6_ChildrenSortedLastConnector ==
  TreeComputed =>
    /\ \A k \in 1..Len(tree_lines) : ParentPath(tree_lines, k) \in RenderedDirs
    /\ \A d \in RenderedDirs :
         LET idx == ChildIndexes(d) IN
         /\ {tree_lines[k].entry : k \in idx} = Survivors(d)
         /\ Cardinality(idx) = Cardinality(Survivors(d))
         /\ \A k1, k2 \in idx :
              k1 < k2 => str_lt(tree_lines[k1].entry, tree_lines[k2].entry)
         /\ \A k \in idx :
              tree_lines[k].connector =
                IF \A k2 \in idx : k2 <= k THEN LastConnector ELSE MidConnector

\* A rendered directory with two surviving entries and an ignored entry that
\* sorts after both.
C6_Witness ==
  /\ TreeComputed
  /\ \E d \in RenderedDirs :
       /\ Cardinality(Survivors(d)) >= 2
       /\ \E n \in os_listdir(target_dir, d) \ Survivors(d) :
            \A m \in Survivors(d) : str_lt(m, n)

\* C7: nothing is written to the output for a file whose read fails, its
\* relative path is printed once, and the finished run has a section for
\* every other file the walk visited and did not ignore.
C7_UnreadableFileSkipped ==
  /\ \A i \in 1..Len(outf) : outf[i].path \notin unreadable
  /\ \A i, j \in 1..Len(stdout) :
       /\ stdout[i] \in unreadable \cap Files
       /\ ~IgnoredNow(stdout[i])
       /\ stdout[i] = stdout[j] => i = j
  /\ pc = "done" =>
       \A p \in Files :
         (Walked(p) /\ ~IgnoredNow(p)) =>
           IF p \in unreadable
           THEN \E i \in 1..Len(stdout) : stdout[i] = p
           ELSE p \in SectionPaths

\* A finished run in which a read failed and a section was written.
C7_Witness ==
  /\ pc = "done"
  /\ stdout # <<>>
  /\ SectionPaths # {}

Kind(i) == outf[i].kind
TreeKinds == {"tree_heading", "tree_line", "tree_close"}

\* The writes are the description, then the tree region if the tree is not
\* suppressed (heading, fence, lines, closing fence), then the sections.
RegionsInOrder ==
  /\ \A i \in 1..Len(outf) : (Kind(i) = "description") <=> (i = 1)
  /\ no_tree => \A i \in 1..Len(outf) : Kind(i) \notin TreeKinds
  /\ \A i \in 1..Len(outf) :
       /\ Kind(i) = "tree_heading" => i = 2
       /\ Kind(i) = "fence" =>
            (i = 3 /\ Kind(2) = "tree_heading") \/ Kind(i - 1) = "path_header"
       /\ Kind(i) \in {"tree_line", "tree_close"} =>
            i > 3 /\ (i - 1 = 3 \/ Kind(i - 1) = "tree_line")
       /\ Kind(i) = "path_header" =>
            Kind(i - 1) \in
              (IF no_tree THEN {"description", "section_close"}
               ELSE {"tree_close", "section_close"})
       /\ Kind(i) = "content" =>
            Kind(i - 1) = "fence" /\ Kind(i - 2) = "path_header"
       /\ Kind(i) = "section_close" => Kind(i - 1) = "content"
  /\ \A i, j \in 1..Len(outf) :
       (i < j /\ Kind(i) = "path_header") =>
         Kind(j) \notin TreeKinds \cup {"description"}
  /\ (~no_tree /\ pc \in {"walk", "done"}) =>
       \E i \in 1..Len(outf) : Kind(i) = "tree_close"

\* A step only adds writes after the ones already made.
AppendOnly ==
  /\ Len(outf) <= Len(outf')
  /\ SubSeq(outf', 1, Len(outf)) = outf

\* C8: the output is only ever appended to, and what has been written is at
\* every moment the description, then the whole tree region (none when the
\* tree is suppressed), then file sections.
C8_RegionOrder == []RegionsInOrder /\ [][AppendOnly]_vars

\* A finished run that wrote tree lines and then sections.
C8_Witness ==
  /\ pc = "done" /\ ~no_tree
  /\ Len(WrittenLines) >= 2
  /\ Cardinality(SectionPaths) >= 2

SepIndexes(p) == {i \in 1..Len(p) : p[i] = Sep}

\* The j-th ancestor directory of p, counted from the scan root.
AncestorAt(p, j) ==
  LET pos == CHOOSE i \in SepIndexes(p) :
               Cardinality({x \in SepIndexes(p) : x < i}) = j - 1
  IN SubSeq(p, 1, pos - 1)

RECURSIVE Components(_)
Components(p) ==
  IF SepIndexes(p) = {} THEN <<p>>
  ELSE LET f == CHOOSE i \in SepIndexes(p) : \A x \in SepIndexes(p) : i <= x
       IN <<SubSeq(p, 1, f - 1)>> \o Components(SubSeq(p, f + 1, Len(p)))

\* Depth-first order with the entries of a directory in lexicographic order:
\* a directory before what is below it, otherwise by the first component
\* that differs.
PathLess(p, q) ==
  LET a == Components(p)
      b == Components(q)
  IN \E i \in 1..Len(b) :
       /\ i <= Len(a) + 1
       /\ \A j \in 1..(i - 1) : a[j] = b[j]
       /\ IF i = Len(a) + 1 THEN TRUE ELSE str_lt(a[i], b[i])

\* The entries that get a line: not ignored, below no ignored directory and
\* below no directory whose listing raises.
Visible ==
  {p \in DOMAIN fs :
     /\ ~IgnoredNow(p)
     /\ EmptyStr \notin unlistable
     /\ \A d \in DOMAIN fs :
          IsAncestor(d, p) => ~IgnoredNow(d) /\ d \notin unlistable}

\* p is the last surviving entry of its directory.
IsLastSurvivor(p) ==
  LET c == Components(p)
      d == IF Len(c) = 1 THEN EmptyStr ELSE AncestorAt(p, Len(c) - 1)
  IN \A n \in Survivors(d) : ~str_lt(c[Len(c)], n)

\* C9: the lines are the visible entries in depth-first order, and the
\* prefix of the line of an entry with d ancestor directories is d
\* extensions, outermost ancestor first: four spaces for an ancestor that
\* was the last surviving entry of its directory, the bar otherwise.
C9_PrefixFromAncestors ==
  TreeComputed =>
    /\ Len(tree_lines) = Cardinality(Visible)
    /\ \A p \in Visible :
         LET k == 1 + Cardinality({q \in Visible : PathLess(q, p)})
             line == tree_lines[k]
             c == Components(p)
             d == Len(c) - 1
         IN /\ line.entry = c[Len(c)]
            /\ Len(line.prefix) = d
            /\ \A j \in 1..d :
                 line.prefix[j] =
                   IF IsLastSurvivor(AncestorAt(p, j))
                   THEN LastExtension ELSE MidExtension

\* A line two levels down whose two extensions differ.
C9_Witness ==
  /\ TreeComputed
  /\ \E k \in 1..Len(tree_lines) :
       /\ Len(tree_lines[k].prefix) = 2
       /\ tree_lines[k].prefix[1] # tree_lines[k].prefix[2]

\* The disk with everything below a directory whose listing raises removed,
\* and every listing succeeding.
EmptiedDisk ==
  [fs |-> [p \in {q \in DOMAIN fs :
                    /\ EmptyStr \notin unlistable
                    /\ \A d \in unlistable : ~IsAncestor(d, q)} |-> fs[p]],
   unlistable |-> {}]

\* C10: the tree is the tree of the disk on which every directory whose
\* listing raises is empty, and such a directory keeps its own line.
C10_UnlistableDirectoryAsEmpty ==
  TreeComputed =>
    /\ tree_lines = generate_tree(EmptiedDisk, EmptyStr, <<>>)
    /\ \A d \in unlistable \cap Visible :
         \E k \in 1..Len(tree_lines) : LinePath(tree_lines, k) = d

\* A visible directory whose listing raises, holding an entry that is not
\* ignored, with a visible entry after it in the same directory.
C10_Witness ==
  /\ TreeComputed
  /\ \E d \in unlistable \cap Visible :
       /\ \E q \in DOMAIN fs : IsAncestor(d, q) /\ ~IgnoredNow(q)
       /\ \E s \in Visible : PathLess(d, s) /\ ~IsAncestor(d, s)

====
